---------------------------- MODULE Spec2Model ----------------------------
(***************************************************************************)
(* Model of python-excel-check: the Streamlit tool (src/script.py) and the *)
(* Flask application (src/app.py) that compare one column of two Excel     *)
(* workbooks and report the codes of the first missing from the second.    *)
(*                                                                         *)
(* Text is modelled as a sequence of one-character strings, so that        *)
(* str(), str.lower(), str.replace() and rsplit() are computed character   *)
(* by character.  A workbook is one named column of cells as pandas holds  *)
(* them after read_excel: an int, a float (integer part and one decimal    *)
(* digit), a text, or a missing cell (NaN).                                *)
(***************************************************************************)
EXTENDS Integers, Sequences, FiniteSets, TLC

VARIABLES colA,      \* cells of column "Barcode" of the first workbook
          colB,      \* cells of column "UPC" of the second workbook
          call,      \* the operation last invoked, with its arguments
          ret,       \* what the last compare_codes call returned or raised
          st,        \* the messages the Streamlit page shows, in order
          report,    \* contents of confronto_codici.txt (NoFile when absent)
          uploads,   \* the upload folder: file name -> workbook saved there
          resp,      \* the last response of the Flask application
          lastGood   \* report of the last request answered with a result page

vars == <<colA, colB, call, ret, st, report, uploads, resp, lastGood>>

-----------------------------------------------------------------------------
(* Bounds of the model *)

\* Cells in the two workbooks together, for one invocation of a comparison.
MaxCells == 3

\* Cells in each workbook held by the user of the Flask application.
MaxRows == 1

-----------------------------------------------------------------------------
(* Characters and text *)

UpperChars == <<"A","B","C","D","E","F","G","H","I","J","K","L","M",
                "N","O","P","Q","R","S","T","U","V","W","X","Y","Z">>

LowerChars == <<"a","b","c","d","e","f","g","h","i","j","k","l","m",
                "n","o","p","q","r","s","t","u","v","w","x","y","z">>

DigitChars == <<"0","1","2","3","4","5","6","7","8","9">>

\* The characters in code point order, as Python compares text.
AsciiOrder == <<" ", ".">> \o DigitChars \o UpperChars \o <<"_">> \o LowerChars

Ord(c) == CHOOSE i \in 1..Len(AsciiOrder) : AsciiOrder[i] = c

\* str.lower() on one character
LowerChar(c) ==
    IF \E i \in 1..Len(UpperChars) : UpperChars[i] = c
    THEN LowerChars[CHOOSE i \in 1..Len(UpperChars) : UpperChars[i] = c]
    ELSE c

\* str.lower()
Lower(s) == [i \in 1..Len(s) |-> LowerChar(s[i])]

\* str.replace(a, b) for one-character a and b
Replace(s, a, b) == [i \in 1..Len(s) |-> IF s[i] = a THEN b ELSE s[i]]

\* s < t in Python's ordering of text
RECURSIVE StrLess(_, _)
StrLess(s, t) ==
    IF s = <<>> THEN t # <<>>
    ELSE IF t = <<>> THEN FALSE
    ELSE IF Head(s) # Head(t) THEN Ord(Head(s)) < Ord(Head(t))
    ELSE StrLess(Tail(s), Tail(t))

\* str(n) of a non-negative int
RECURSIVE IntStr(_)
IntStr(n) ==
    IF n < 10 THEN <<DigitChars[n + 1]>>
    ELSE IntStr(n \div 10) \o <<DigitChars[(n % 10) + 1]>>

\* str(x) of the float i + f/10: always with a decimal point
FloatStr(i, f) == IntStr(i) \o <<".", DigitChars[f + 1]>>

-----------------------------------------------------------------------------
(* Cells and columns *)

NaN == [k |-> "nan", n |-> 0, f |-> 0, s |-> <<>>]

IntCell(n) == [k |-> "int", n |-> n, f |-> 0, s |-> <<>>]

FloatCell(i, f) == [k |-> "float", n |-> i, f |-> f, s |-> <<>>]

TextCell(s) == [k |-> "str", n |-> 0, f |-> 0, s |-> s]

Cells == { NaN, IntCell(1), FloatCell(1, 0), FloatCell(1, 5),
           TextCell(<<"A", "b">>), TextCell(<<"a", "b">>) }

Columns(max) == UNION { [1..n -> Cells] : n \in 0..max }

\* The pairs of columns with at most max cells together.
ColumnPairs(max) ==
    UNION { [1..n -> Cells] \X Columns(max - n) : n \in 0..max }

\* The dtype pandas gives a column: object when a text is present, int64
\* when every cell is an int, float64 for numbers with a float or a hole.
DType(col) ==
    IF Len(col) = 0 \/ \E i \in 1..Len(col) : col[i].k = "str" THEN "object"
    ELSE IF \A i \in 1..Len(col) : col[i].k = "int" THEN "int64"
    ELSE "float64"

\* Series.dropna()
DropNa(col) == SelectSeq(col, LAMBDA c : c.k # "nan")

\* The text astype(str) gives one cell of a column of the given dtype.
CellStr(dtype, c) ==
    IF c.k = "str" THEN c.s
    ELSE IF c.k = "nan" THEN <<"n", "a", "n">>
    ELSE IF dtype = "float64" \/ c.k = "float" THEN FloatStr(c.n, c.f)
    ELSE IntStr(c.n)

\* Series.astype(str)
AsTypeStr(dtype, col) == [i \in 1..Len(col) |-> CellStr(dtype, col[i])]

\* Series.str.lower()
StrLowerSeries(ser) == [i \in 1..Len(ser) |-> Lower(ser[i])]

\* set(series)
SetOf(ser) == { ser[i] : i \in 1..Len(ser) }

-----------------------------------------------------------------------------
(* Workbooks and the errors an operation can raise *)

Column1 == "Barcode"

Column2 == "UPC"

AbsentColumn == "Nope"

\* A workbook handed to an operation.  kind is "path" (a str or Path),
\* "upload" (Streamlit's UploadedFile, a BytesIO) or "storage" (werkzeug's
\* FileStorage, which has a filename attribute); header is the name of the
\* one column read_excel finds in it.
Book(kind, name, readable, header, cells) ==
    [kind |-> kind, name |-> name, readable |-> readable,
     header |-> header, cells |-> cells]

NoError == "none"

-----------------------------------------------------------------------------
(* src/script.py: CodeComparisonTool *)

LeftToRight == <<"l","e","f","t","_","t","o","_","r","i","g","h","t">>

RightToLeft == <<"r","i","g","h","t","_","t","o","_","l","e","f","t">>

BothWays == <<"b","o","t","h">>

\* One message on the Streamlit page.
Msg(kind, text, err, n, codes) ==
    [kind |-> kind, text |-> text, err |-> err, n |-> n, codes |-> codes]

StError(text, err) == Msg("error", text, err, -1, {})

\* CodeSet with lines 53-56 reduced to the case_sensitive branch.
CodeSetExact(cells, case_sensitive) ==
    SetOf(AsTypeStr(DType(cells), DropNa(cells)))

\* The normalisation of one column: dropna, astype(str), lower unless
\* case_sensitive, set.
CodeSet(cells, case_sensitive) ==
    LET texts == AsTypeStr(DType(cells), DropNa(cells))
    IN  IF case_sensitive THEN SetOf(texts) ELSE SetOf(StrLowerSeries(texts))

\* LoadExcelColumn without the check of lines 49-50: the column read is the
\* one the workbook has.
LoadExcelColumnUnchecked(file, column_name, case_sensitive) ==
    IF file.kind # "path"
    THEN [err |-> "TypeError", codes |-> {}]
    ELSE IF ~file.readable
    THEN [err |-> "FileUnreadable", codes |-> {}]
    ELSE [err |-> NoError, codes |-> CodeSet(file.cells, case_sensitive)]

\* _load_excel_column: the set of codes, or the error raised (and shown by
\* st.error before it is re-raised).
LoadExcelColumn(file, column_name, case_sensitive) ==
    IF file.kind # "path"
    THEN [err |-> "TypeError", codes |-> {}]          \* Path(file_path)
    ELSE IF ~file.readable
    THEN [err |-> "FileUnreadable", codes |-> {}]     \* pd.read_excel
    ELSE IF column_name # file.header
    THEN [err |-> "ColumnNotFound", codes |-> {}]
    ELSE [err |-> NoError, codes |-> CodeSet(file.cells, case_sensitive)]

\* MissingCodes with the two differences exchanged.
MissingCodesSwapped(codes1, codes2, comparison_direction) ==
    IF comparison_direction = LeftToRight
    THEN [err |-> NoError, missing |-> codes2 \ codes1]
    ELSE IF comparison_direction = RightToLeft
    THEN [err |-> NoError, missing |-> codes1 \ codes2]
    ELSE [err |-> "InvalidDirection", missing |-> {}]

\* MissingCodes with a plain else in place of the elif and the raise.
MissingCodesLenient(codes1, codes2, comparison_direction) ==
    IF comparison_direction = LeftToRight
    THEN [err |-> NoError, missing |-> codes1 \ codes2]
    ELSE [err |-> NoError, missing |-> codes2 \ codes1]

\* The branch on comparison_direction.
MissingCodes(codes1, codes2, comparison_direction) ==
    IF comparison_direction = LeftToRight
    THEN [err |-> NoError, missing |-> codes1 \ codes2]
    ELSE IF comparison_direction = RightToLeft
    THEN [err |-> NoError, missing |-> codes2 \ codes1]
    ELSE [err |-> "InvalidDirection", missing |-> {}]

\* No call of compare_codes was made.
NotCalled ==
    [outcome |-> "none", err |-> NoError, hasSet |-> FALSE, missing |-> {},
     count |-> -1, msgs |-> <<>>]

ToolRaise(err, msgs) ==
    [outcome |-> "error", err |-> err, hasSet |-> FALSE, missing |-> {},
     count |-> -1, msgs |-> msgs \o <<StError("Comparison failed", err)>>]

\* CodeComparisonTool.compare_codes: what it returns or raises, the count it
\* reports with st.info, and the messages it shows.
ToolCompare(file1, column1, file2, column2, case_sensitive, comparison_direction, return_missing) ==
    LET l1 == LoadExcelColumn(file1, column1, case_sensitive)
        l2 == LoadExcelColumn(file2, column2, case_sensitive)
        d  == MissingCodes(l1.codes, l2.codes, comparison_direction)
    IN  IF l1.err # NoError
        THEN ToolRaise(l1.err, <<StError("Error processing", l1.err)>>)
        ELSE IF l2.err # NoError
        THEN ToolRaise(l2.err, <<StError("Error processing", l2.err)>>)
        ELSE IF d.err # NoError
        THEN ToolRaise(d.err, <<>>)
        ELSE [outcome |-> "ok", err |-> NoError,
              hasSet |-> return_missing,
              missing |-> IF return_missing THEN d.missing ELSE {},
              count |-> Cardinality(d.missing),
              msgs |-> <<Msg("info", "Comparison complete", NoError,
                             Cardinality(d.missing), {})>>]

SelectboxLabels ==
    { <<"L","e","f","t"," ","t","o"," ","R","i","g","h","t">>,
      <<"R","i","g","h","t"," ","t","o"," ","L","e","f","t">> }

\* The direction main() passes: the label lower-cased, spaces to underscores.
DirectionOfLabel(label) == Replace(Lower(label), " ", "_")

\* What main() shows after compare_codes returned missing_codes.
DisplayResults(missing_codes) ==
    IF missing_codes # {}
    THEN << Msg("metric", "Missing Codes", NoError,
                Cardinality(missing_codes), {}),
            Msg("dataframe", "Sample of Missing Codes", NoError,
                Cardinality(missing_codes), missing_codes),
            Msg("download", "Download Missing Codes", NoError,
                Cardinality(missing_codes), missing_codes) >>
    ELSE << Msg("success", "No missing codes found", NoError, 0, {}) >>

\* main() after the button was pressed: ret and the messages on the page.
MainRun(c) ==
    IF ~c.file1 \/ ~c.file2
    THEN [ran |-> FALSE, res |-> NotCalled,
          msgs |-> <<Msg("warning", "Please upload both Excel files.",
                         NoError, -1, {})>>]
    ELSE IF c.column1 = "" \/ c.column2 = ""
    THEN [ran |-> FALSE, res |-> NotCalled,
          msgs |-> <<Msg("warning",
                         "Please specify column names for both files.",
                         NoError, -1, {})>>]
    ELSE LET r == ToolCompare(
                      Book("upload", <<>>, TRUE, Column1, colA), c.column1,
                      Book("upload", <<>>, TRUE, Column2, colB), c.column2,
                      c.case_sensitive, DirectionOfLabel(c.label), TRUE)
         IN  [ran |-> TRUE, res |-> r,
              msgs |-> IF r.outcome = "ok"
                       THEN r.msgs \o DisplayResults(r.missing)
                       ELSE r.msgs \o <<StError("An error occurred", r.err)>>]

-----------------------------------------------------------------------------
(* src/app.py: CodeComparisonApp.compare_codes *)

\* An element of set(df[col].dropna()): Python holds an int and the float
\* equal to it as one element; v is the number in tenths.
Key(c) ==
    IF c.k = "str" THEN [k |-> "str", v |-> 0, s |-> c.s]
    ELSE [k |-> "num", v |-> 10 * c.n + c.f, s |-> <<>>]

RawSet(cells) == { Key(DropNa(cells)[i]) : i \in 1..Len(DropNa(cells)) }

\* codici1 - codici2
MancantiInFile2(cells1, cells2) == RawSet(cells1) \ RawSet(cells2)

\* sorted() raises TypeError when it has to order a number and a text.
Sortable(S) == ~(\E a \in S : a.k = "num" /\ \E b \in S : b.k = "str")

KeyLess(a, b) == IF a.k = "num" THEN a.v < b.v ELSE StrLess(a.s, b.s)

\* sorted(S) for a sortable S
RECURSIVE Sorted(_)
Sorted(S) ==
    IF S = {} THEN <<>>
    ELSE LET m == CHOOSE x \in S : \A y \in S \ {x} : KeyLess(x, y)
         IN  <<m>> \o Sorted(S \ {m})

\* The text written for one code: an integer-valued float as the int.
CodeText(a) ==
    IF a.k = "str" THEN a.s
    ELSE IF a.v % 10 = 0 THEN IntStr(a.v \div 10)
    ELSE FloatStr(a.v \div 10, a.v % 10)

Line(t, a, b, s) == [t |-> t, a |-> a, b |-> b, s |-> s]

BlankLine == Line("blank", <<>>, <<>>, <<>>)

Delimiter == Line("delimiter", <<>>, <<>>, <<>>)

HeaderLine(name1, name2) == Line("header", name1, name2, <<>>)

CodeLine(text) == Line("code", <<>>, <<>>, text)

NoMissingLine == Line("marker", <<>>, <<>>, <<>>)

NoFile == [exists |-> FALSE, lines |-> <<>>]

FileOf(lines) == [exists |-> TRUE, lines |-> lines]

\* The lines written for the codes, in sorted order.
CodeLines(S) == LET srt == Sorted(S)
                IN  [i \in 1..Len(srt) |-> CodeLine(CodeText(srt[i]))]

AppRaise(err, rep, computed, diff) ==
    [outcome |-> "error", err |-> err, count |-> -1, report |-> rep,
     computed |-> computed, diff |-> diff]

\* CodeComparisonApp.compare_codes on the report file as it is before the
\* call: the count returned or the error raised, and the report file after.
AppCompare(file1, colonna1, file2, colonna2, before) ==
    LET diff == MancantiInFile2(file1.cells, file2.cells)
        opened == <<BlankLine, Delimiter>>
        headed == opened \o <<HeaderLine(file1.name, file2.name)>>
    IN  IF ~file1.readable \/ ~file2.readable
        THEN AppRaise("FileUnreadable", before, FALSE, {})
        ELSE IF colonna1 # file1.header \/ colonna2 # file2.header
        THEN AppRaise("ColumnNotFound", before, FALSE, {})
        ELSE IF file1.kind # "storage" \/ file2.kind # "storage"
        THEN AppRaise("AttributeError", FileOf(opened), TRUE, diff)
        ELSE IF diff # {} /\ ~Sortable(diff)
        THEN AppRaise("TypeError", FileOf(headed), TRUE, diff)
        ELSE [outcome |-> "ok", err |-> NoError,
              count |-> Cardinality(diff),
              report |-> FileOf(headed
                                \o (IF diff # {} THEN CodeLines(diff)
                                    ELSE <<NoMissingLine>>)
                                \o <<Delimiter>>),
              computed |-> TRUE, diff |-> diff]

-----------------------------------------------------------------------------
(* src/app.py: the routes *)

AllowedExtensions == { <<"x","l","s","x">>, <<"x","l","s">> }

\* filename.rsplit('.', 1)[1]
Extension(filename) ==
    LET dots == { i \in 1..Len(filename) : filename[i] = "." }
        last == CHOOSE i \in dots : \A j \in dots : j <= i
    IN  SubSeq(filename, last + 1, Len(filename))

\* allowed_file
AllowedFile(filename) ==
    /\ \E i \in 1..Len(filename) : filename[i] = "."
    /\ Lower(Extension(filename)) \in AllowedExtensions

\* str.strip("._")
RECURSIVE Strip(_)
Strip(s) ==
    IF s = <<>> THEN s
    ELSE IF Head(s) \in {".", "_"} THEN Strip(Tail(s))
    ELSE IF s[Len(s)] \in {".", "_"} THEN Strip(SubSeq(s, 1, Len(s) - 1))
    ELSE s

\* werkzeug's secure_filename on names of letters, digits, dots and single
\* spaces: whitespace becomes an underscore, leading and trailing dots and
\* underscores are stripped.
SecureFilename(filename) == Strip(Replace(filename, " ", "_"))

NameA == <<"a", ".", "x", "l", "s", "x">>

NameB == <<"b", " ", "b", ".", "X", "L", "S">>

NameTxt == <<"c", ".", "t", "x", "t">>

FileNames == { <<>>, NameA, NameB, NameTxt }

EmptyFolder == [x \in {} |-> NaN]

\* file.save(path): the folder with the workbook stored under the name
Save(folder, name, book) ==
    [x \in DOMAIN folder \cup {name} |-> IF x = name THEN book ELSE folder[x]]

\* os.remove(path); FileNotFoundError when the name is not there
Remove(folder, name) == [x \in DOMAIN folder \ {name} |-> folder[x]]

Response(kind, total_lines, flash, err, body) ==
    [kind |-> kind, total_lines |-> total_lines, flash |-> flash,
     err |-> err, body |-> body]

NoResponse == Response("none", -1, "", NoError, NoFile)

Redirect(flash, err) == Response("redirect", -1, flash, err, NoFile)

\* No call of CodeComparisonApp.compare_codes was made.
AppNotCalled ==
    [outcome |-> "none", err |-> NoError, count |-> -1,
     computed |-> FALSE, diff |-> {}]

Outcome(r) ==
    [outcome |-> r.outcome, err |-> r.err, count |-> r.count,
     computed |-> r.computed, diff |-> r.diff]

\* upload_files on one request: the response, the upload folder and the
\* report file after it, and what its compare_codes call did.
UploadFiles(req, folder, rep) ==
    LET unchanged(r) == [resp |-> r, uploads |-> folder, report |-> rep,
                         ret |-> AppNotCalled]
        filename1 == SecureFilename(req.name1)
        filename2 == SecureFilename(req.name2)
        saved == Save(Save(folder, filename1,
                           Book("path", filename1, req.readable1,
                                Column1, colA)),
                      filename2,
                      Book("path", filename2, req.readable2, Column2, colB))
        r == AppCompare(saved[filename1], req.colonna1,
                        saved[filename2], req.colonna2, rep)
        removed1 == Remove(saved, filename1)
    IN  IF req.method # "POST"
        THEN unchanged(Response("page", -1, "", NoError, NoFile))
        ELSE IF ~req.parts
        THEN unchanged(Redirect("No file part", NoError))
        ELSE IF req.name1 = <<>> \/ req.name2 = <<>>
        THEN unchanged(Redirect("No selected file", NoError))
        ELSE IF ~(AllowedFile(req.name1) /\ AllowedFile(req.name2))
        THEN unchanged(Redirect("Invalid file type", NoError))
        ELSE IF ~req.form
        THEN [resp |-> Redirect("An error occurred", "KeyError"),
              uploads |-> saved, report |-> rep, ret |-> AppNotCalled]
        ELSE IF r.outcome # "ok"
        THEN [resp |-> Redirect("An error occurred", r.err),
              uploads |-> saved, report |-> r.report, ret |-> Outcome(r)]
        ELSE IF filename2 \notin DOMAIN removed1
        THEN [resp |-> Redirect("An error occurred", "FileNotFoundError"),
              uploads |-> removed1, report |-> r.report, ret |-> Outcome(r)]
        ELSE [resp |-> Response("page", r.count, "", NoError, NoFile),
              uploads |-> Remove(removed1, filename2),
              report |-> r.report, ret |-> Outcome(r)]

\* download_file: the report as an attachment, or the flash message when the
\* file does not exist.
DownloadFile(rep) ==
    IF rep.exists THEN Response("file", -1, "", NoError, rep)
    ELSE Redirect("No comparison results available.", "FileNotFoundError")

-----------------------------------------------------------------------------
(* One invocation of a comparison on two workbooks *)

Directions == { LeftToRight, RightToLeft, BothWays }

ToolCall(readable1, readable2, column1, column2, case_sensitive, direction, return_missing) ==
    [op |-> "compare_codes", readable1 |-> readable1,
     readable2 |-> readable2, column1 |-> column1, column2 |-> column2,
     case_sensitive |-> case_sensitive, direction |-> direction,
     return_missing |-> return_missing]

\* The calls of compare_codes: every flag and direction on two readable
\* workbooks with their columns, and the failing calls.
ToolCalls ==
    { ToolCall(TRUE, TRUE, Column1, Column2, cs, d, rm) :
        cs \in BOOLEAN, d \in Directions, rm \in BOOLEAN }
    \cup
    { ToolCall(f[1], f[2], f[3], f[4], FALSE, d, TRUE) :
        f \in { <<FALSE, TRUE, Column1, Column2>>,
                <<TRUE, FALSE, Column1, Column2>>,
                <<TRUE, TRUE, AbsentColumn, Column2>>,
                <<TRUE, TRUE, Column1, AbsentColumn>>,
                <<TRUE, TRUE, AbsentColumn, AbsentColumn>> },
        d \in { LeftToRight, BothWays } }

MainClick(file1, file2, column1, column2, case_sensitive, label) ==
    [op |-> "main", file1 |-> file1, file2 |-> file2, column1 |-> column1,
     column2 |-> column2, case_sensitive |-> case_sensitive, label |-> label]

\* What the page can hold when "Compare Files" is pressed.
MainClicks ==
    { MainClick(TRUE, TRUE, Column1, Column2, cs, l) :
        cs \in BOOLEAN, l \in SelectboxLabels }
    \cup
    { MainClick(f[1], f[2], f[3], f[4], FALSE,
                CHOOSE l \in SelectboxLabels : TRUE) :
        f \in { <<FALSE, TRUE, Column1, Column2>>,
                <<TRUE, FALSE, Column1, Column2>>,
                <<TRUE, TRUE, "", Column2>>,
                <<TRUE, TRUE, Column1, "">>,
                <<TRUE, TRUE, AbsentColumn, Column2>> } }

Returned(r) ==
    [outcome |-> r.outcome, err |-> r.err, hasSet |-> r.hasSet,
     missing |-> r.missing, count |-> r.count]

Idle == [op |-> "none"]

\* A caller invokes CodeComparisonTool.compare_codes with two paths.
ToolCompareCodes(c) ==
    /\ call = Idle
    /\ LET r == ToolCompare(
                    Book("path", <<>>, c.readable1, Column1, colA), c.column1,
                    Book("path", <<>>, c.readable2, Column2, colB), c.column2,
                    c.case_sensitive, c.direction, c.return_missing)
       IN  /\ ret' = Returned(r)
           /\ st' = r.msgs
    /\ call' = c
    /\ UNCHANGED <<colA, colB, report, uploads, resp, lastGood>>

\* The click with the direction main() hands to compare_codes.
MainCalled(c) ==
    [op |-> "main", file1 |-> c.file1, file2 |-> c.file2,
     column1 |-> c.column1, column2 |-> c.column2,
     case_sensitive |-> c.case_sensitive, label |-> c.label,
     direction |-> DirectionOfLabel(c.label)]

\* The user presses "Compare Files" on the Streamlit page.
Main(c) ==
    /\ call = Idle
    /\ LET m == MainRun(c)
       IN  /\ ret' = Returned(m.res)
           /\ st' = m.msgs
    /\ call' = MainCalled(c)
    /\ UNCHANGED <<colA, colB, report, uploads, resp, lastGood>>

-----------------------------------------------------------------------------
(* CodeComparisonApp.compare_codes called directly *)

AppCall(kind, readable1, readable2, colonna1, colonna2) ==
    [op |-> "app_compare", kind |-> kind, readable1 |-> readable1,
     readable2 |-> readable2, colonna1 |-> colonna1, colonna2 |-> colonna2]

\* The calls: with FileStorage objects as the signature says, with paths as
\* upload_files passes them, and the failing calls.
AppCalls ==
    { AppCall(k, TRUE, TRUE, Column1, Column2) : k \in {"storage", "path"} }
    \cup
    { AppCall(f[1], f[2], f[3], f[4], f[5]) :
        f \in { <<"storage", FALSE, TRUE, Column1, Column2>>,
                <<"storage", TRUE, FALSE, Column1, Column2>>,
                <<"storage", TRUE, TRUE, AbsentColumn, Column2>>,
                <<"storage", TRUE, TRUE, Column1, AbsentColumn>>,
                <<"storage", TRUE, TRUE, AbsentColumn, AbsentColumn>>,
                <<"path", TRUE, TRUE, Column1, AbsentColumn>> } }

\* The report an earlier successful call left behind.
OldReport ==
    AppCompare(Book("storage", NameB, TRUE, Column1, <<IntCell(1)>>), Column1,
               Book("storage", NameA, TRUE, Column2, <<>>), Column2,
               NoFile).report

\* Two workbooks, and the report file absent or left by an earlier call.
Init ==
    /\ \E p \in ColumnPairs(MaxCells) : colA = p[1] /\ colB = p[2]
    /\ call = Idle
    /\ ret = AppNotCalled
    /\ st = <<>>
    /\ report \in {NoFile, OldReport}
    /\ uploads = EmptyFolder
    /\ resp = NoResponse
    /\ lastGood = NoFile

\* A caller invokes CodeComparisonApp.compare_codes.
AppCompareCodes(c) ==
    /\ call = Idle
    /\ LET r == AppCompare(
                    Book(c.kind, NameA, c.readable1, Column1, colA),
                    c.colonna1,
                    Book(c.kind, NameB, c.readable2, Column2, colB),
                    c.colonna2, report)
       IN  /\ ret' = Outcome(r)
           /\ report' = r.report
    /\ call' = c
    /\ UNCHANGED <<colA, colB, st, uploads, resp, lastGood>>

Next ==
    \/ \E c \in ToolCalls : ToolCompareCodes(c)
    \/ \E c \in MainClicks : Main(c)
    \/ \E c \in AppCalls : AppCompareCodes(c)

Spec == Init /\ [][Next]_vars

-----------------------------------------------------------------------------
(* The Flask application: any sequence of requests *)

Request(method, parts, name1, name2, readable1, readable2, form, colonna1, colonna2) ==
    [op |-> "upload", method |-> method, parts |-> parts, name1 |-> name1,
     name2 |-> name2, readable1 |-> readable1, readable2 |-> readable2,
     form |-> form, colonna1 |-> colonna1, colonna2 |-> colonna2]

\* The requests to '/': a GET, a POST without the file parts, POSTs with
\* every pair of file names, and with two Excel names the failing uploads.
Requests ==
    { Request("GET", FALSE, <<>>, <<>>, TRUE, TRUE, TRUE, Column1, Column2),
      Request("POST", FALSE, <<>>, <<>>, TRUE, TRUE, TRUE, Column1, Column2) }
    \cup
    { Request("POST", TRUE, n1, n2, TRUE, TRUE, TRUE, Column1, Column2) :
        n1 \in FileNames, n2 \in FileNames }
    \cup
    { Request("POST", TRUE, NameA, NameB, f[1], f[2], f[3], f[4], f[5]) :
        f \in { <<FALSE, TRUE, TRUE, Column1, Column2>>,
                <<TRUE, FALSE, TRUE, Column1, Column2>>,
                <<TRUE, TRUE, FALSE, Column1, Column2>>,
                <<TRUE, TRUE, TRUE, AbsentColumn, Column2>>,
                <<TRUE, TRUE, TRUE, Column1, AbsentColumn>> } }
    \cup
    { Request("POST", TRUE, NameB, NameB, TRUE, TRUE, TRUE, Column2, Column2) }

InitApp ==
    /\ colA \in Columns(MaxRows)
    /\ colB \in Columns(MaxRows)
    /\ call = Idle
    /\ ret = AppNotCalled
    /\ st = <<>>
    /\ report = NoFile
    /\ uploads = EmptyFolder
    /\ resp = NoResponse
    /\ lastGood = NoFile

\* A request to '/' is handled by upload_files.
UploadFilesRequest(req) ==
    /\ LET u == UploadFiles(req, uploads, report)
       IN  /\ resp' = u.resp
           /\ uploads' = u.uploads
           /\ report' = u.report
           /\ ret' = u.ret
           /\ lastGood' = IF u.resp.kind = "page" /\ u.resp.total_lines >= 0
                          THEN u.report ELSE lastGood
    /\ call' = req
    /\ UNCHANGED <<colA, colB, st>>

\* A request to '/download' is handled by download_file.
DownloadRequest ==
    /\ resp' = DownloadFile(report)
    /\ call' = [op |-> "download"]
    /\ UNCHANGED <<colA, colB, ret, st, report, uploads, lastGood>>

NextApp ==
    \/ \E req \in Requests : UploadFilesRequest(req)
    \/ DownloadRequest

SpecApp == InitApp /\ [][NextApp]_vars

-----------------------------------------------------------------------------
(* Properties *)

\* The normalised text of cell i of a column under the chosen case rule.
NormText(col, i, case_sensitive) ==
    LET t == CellStr(DType(col), col[i])
    IN  IF case_sensitive THEN t ELSE Lower(t)

\* Some present cell of the column normalises to x.
Holds(col, case_sensitive, x) ==
    \E i \in 1..Len(col) :
        col[i].k # "nan" /\ NormText(col, i, case_sensitive) = x

\* The normalised texts of all cells, the missing ones included.
AllTexts(col, case_sensitive) ==
    { NormText(col, i, case_sensitive) : i \in 1..Len(col) }

SourceColumn == IF call.direction = LeftToRight THEN colA ELSE colB

OtherColumn == IF call.direction = LeftToRight THEN colB ELSE colA

\* compare_codes of the tool returned normally, with the set when asked.
ToolReturned == call.op = "compare_codes" /\ ret.outcome = "ok"

\* A report with header line, body and closing delimiter.
CompleteReport(rep) ==
    /\ rep.exists
    /\ Len(rep.lines) >= 5
    /\ rep.lines[1] = BlankLine
    /\ rep.lines[2] = Delimiter
    /\ rep.lines[3].t = "header"
    /\ rep.lines[Len(rep.lines)] = Delimiter
    /\ \/ SubSeq(rep.lines, 4, Len(rep.lines) - 1) = <<NoMissingLine>>
       \/ \A i \in 4..(Len(rep.lines) - 1) :
              rep.lines[i].t = "code" /\ rep.lines[i].s # <<>>

\* C1: for readable workbooks whose columns exist, and either case rule, the
\* tool's compare_codes reports exactly the codes that some present cell of
\* the source column normalises to and no present cell of the other column
\* does (first minus second for left_to_right, second minus first for
\* right_to_left); the count it reports is the size of that set, the set
\* holds no missing value and is part of the source column's code set.
C1_DifferenceOfNormalizedSets ==
    ToolReturned =>
        LET cs == call.case_sensitive
            expected == { x \in AllTexts(SourceColumn, cs) :
                            /\ Holds(SourceColumn, cs, x)
                            /\ ~Holds(OtherColumn, cs, x) }
        IN  /\ ret.count = Cardinality(expected)
            /\ ret.hasSet = call.return_missing
            /\ ret.hasSet =>
                  /\ ret.missing = expected
                  /\ <<"n", "a", "n">> \notin ret.missing
                  /\ \A x \in ret.missing : Holds(SourceColumn, cs, x)

\* A right-to-left comparison whose second column has a hole and a code the
\* first column lacks.
C1_Witness ==
    /\ ToolReturned
    /\ call.direction = RightToLeft
    /\ ret.hasSet
    /\ ret.missing # {}
    /\ \E i \in 1..Len(colB) : colB[i].k = "nan"
    /\ colA # <<>>

\* C2: a code held as the int n in one column and as the float n.0 in the
\* other is the same code: compare_codes of the tool never reports it as
\* missing, in either direction.
C2_IntAndFloatAreOneCode ==
    (ToolReturned /\ ret.hasSet) =>
        \A i \in 1..Len(SourceColumn), j \in 1..Len(OtherColumn) :
            LET a == SourceColumn[i]
                b == OtherColumn[j]
            IN  ( /\ a.k \in {"int", "float"}
                  /\ b.k \in {"int", "float"}
                  /\ a.f = 0 /\ b.f = 0 /\ a.n = b.n )
                => NormText(SourceColumn, i, call.case_sensitive)
                       \notin ret.missing

\* The upload that passes every check of upload_files: two Excel names,
\* readable files, both form fields, both columns present.
ValidUpload(c) ==
    /\ c.op = "upload"
    /\ c.method = "POST"
    /\ c.parts
    /\ c.name1 # <<>> /\ c.name2 # <<>>
    /\ AllowedFile(c.name1) /\ AllowedFile(c.name2)
    /\ SecureFilename(c.name1) # SecureFilename(c.name2)
    /\ c.readable1 /\ c.readable2
    /\ c.form
    /\ c.colonna1 = Column1 /\ c.colonna2 = Column2

\* C3: a valid upload completes: the response is the result page whose
\* total_lines is the number of codes of the first column missing from the
\* second, and the report file is complete.
C3_ValidUploadCompletes ==
    ValidUpload(call) =>
        /\ resp.kind = "page"
        /\ resp.total_lines = Cardinality(MancantiInFile2(colA, colB))
        /\ CompleteReport(report)

\* C4: when compare_codes of the application raises, the report file is as
\* it was before the call or is a complete report.
C4_NoPartialReport ==
    [][ (call = Idle /\ call'.op = "app_compare" /\ ret'.outcome = "error")
        => (report' = report \/ CompleteReport(report')) ]_vars

\* C5: after every request the upload folder holds none of the files the
\* requests saved.
C5_UploadsDeleted == DOMAIN uploads = {}

\* The call names a column its readable workbook does not have.
ColumnAbsent(c) ==
    \/ /\ c.op = "compare_codes"
       /\ c.readable1 /\ c.readable2
       /\ (c.column1 # Column1 \/ c.column2 # Column2)
    \/ /\ c.op = "app_compare"
       /\ c.readable1 /\ c.readable2
       /\ (c.colonna1 # Column1 \/ c.colonna2 # Column2)

\* C6: a compare_codes call naming a column absent from its workbook (the
\* first, the second or both) raises column-not-found, computes and returns
\* no difference set, reports no count, and leaves the report file as it was.
C6_ColumnNotFound ==
    [][ (call = Idle /\ ColumnAbsent(call')) =>
          /\ ret'.outcome = "error"
          /\ ret'.err = "ColumnNotFound"
          /\ ret'.count = -1
          /\ report' = report
          /\ call'.op = "compare_codes" =>
                /\ ~ret'.hasSet /\ ret'.missing = {}
                /\ st' # <<>>
                /\ \A i \in 1..Len(st') :
                       st'[i].kind = "error" /\ st'[i].err = "ColumnNotFound"
          /\ call'.op = "app_compare" =>
                ~ret'.computed /\ ret'.diff = {} ]_vars

\* The application's compare_codes was asked for an absent column of the
\* second workbook while an earlier report existed.
C6_Witness ==
    /\ call.op = "app_compare"
    /\ call.colonna1 = Column1 /\ call.colonna2 = AbsentColumn
    /\ ret.err = "ColumnNotFound"
    /\ report = OldReport
    /\ colA # <<>>

\* C7: whenever the difference is empty the output carries the no-missing
\* marker: the report written by the application's compare_codes has the
\* marker line between header and closing delimiter, and main() shows its
\* success message and no table; the marker is absent when the difference
\* is not empty.
C7_EmptyDifferenceHasMarker ==
    /\ (call.op = "app_compare" /\ ret.computed) =>
          /\ ret.diff = {} =>
                /\ CompleteReport(report)
                /\ report.lines[4] = NoMissingLine
          /\ ret.diff # {} =>
                \A i \in 1..Len(report.lines) :
                    report.lines[i] # NoMissingLine
    /\ ( /\ call.op = "main"
         /\ call.file1 /\ call.file2
         /\ call.column1 = Column1 /\ call.column2 = Column2
         /\ \A x \in CodeSet(SourceColumn, call.case_sensitive) :
                x \in CodeSet(OtherColumn, call.case_sensitive) )
       => /\ \E i \in 1..Len(st) : st[i].kind = "success"
          /\ \A i \in 1..Len(st) : st[i].kind # "dataframe"

\* C8: without case_sensitive, codes that differ only in letter case are one
\* code and are not reported; with case_sensitive they are distinct and a
\* code is reported unless the other column holds it letter for letter.  The
\* one rule is applied to both columns.
C8_CaseRule ==
    (ToolReturned /\ ret.hasSet) =>
        /\ ~call.case_sensitive =>
              \A x \in ret.missing :
                  /\ x = Lower(x)
                  /\ \A j \in 1..Len(OtherColumn) :
                         OtherColumn[j].k = "nan"
                         \/ Lower(CellStr(DType(OtherColumn), OtherColumn[j]))
                                # x
        /\ call.case_sensitive =>
              \A i \in 1..Len(SourceColumn) :
                  LET t == CellStr(DType(SourceColumn), SourceColumn[i])
                  IN  ( /\ SourceColumn[i].k = "str"
                        /\ \A j \in 1..Len(OtherColumn) :
                               OtherColumn[j].k = "nan"
                               \/ CellStr(DType(OtherColumn), OtherColumn[j])
                                      # t )
                      => t \in ret.missing

\* "Ab" in the first column and "ab" in the second, compared without
\* case_sensitive: nothing is missing.
C8_Witness ==
    /\ ToolReturned
    /\ ~call.case_sensitive
    /\ call.direction = LeftToRight
    /\ ret.hasSet
    /\ ret.missing = {}
    /\ \E i \in 1..Len(colA) : colA[i] = TextCell(<<"A", "b">>)
    /\ \E j \in 1..Len(colB) : colB[j] = TextCell(<<"a", "b">>)
    /\ \A j \in 1..Len(colB) : colB[j] # TextCell(<<"A", "b">>)

\* C9: compare_codes of the tool with a direction other than left_to_right
\* and right_to_left raises, shows an error message, returns no set and
\* reports no count, and on readable workbooks with their columns the error
\* is the invalid-direction one; every direction main() passes is one of the
\* two accepted values, so main() never meets that error.
C9_InvalidDirection ==
    /\ ( /\ call.op = "compare_codes"
         /\ call.direction \notin {LeftToRight, RightToLeft} )
       => /\ ret.outcome = "error"
          /\ ~ret.hasSet /\ ret.missing = {}
          /\ ret.count = -1
          /\ st # <<>>
          /\ \A i \in 1..Len(st) : st[i].kind = "error"
          /\ ( /\ call.readable1 /\ call.readable2
               /\ call.column1 = Column1 /\ call.column2 = Column2 )
             => /\ ret.err = "InvalidDirection"
                /\ st = <<StError("Comparison failed", "InvalidDirection")>>
    /\ call.op = "main" =>
          /\ call.direction \in {LeftToRight, RightToLeft}
          /\ ret.err # "InvalidDirection"

\* compare_codes was called with the direction "both" on two readable
\* workbooks and raised the invalid-direction error.
C9_Witness ==
    /\ call.op = "compare_codes"
    /\ call.direction = BothWays
    /\ call.column1 = Column1 /\ call.column2 = Column2
    /\ call.readable1 /\ call.readable2
    /\ ret.err = "InvalidDirection"
    /\ colA # <<>> /\ colB # <<>>

\* C10: a download serves the complete report of the most recent upload
\* that was answered with a result page, or says that no results are
\* available.
C10_DownloadServesLastResult ==
    (call.op = "download" /\ resp.kind = "file") =>
        /\ CompleteReport(resp.body)
        /\ resp.body = lastGood

=============================================================================
